---- MODULE Spec2Model ----
(***************************************************************************)
(* services/file_management.py: get_extension_from_url and download_file.  *)
(*                                                                         *)
(* A Python str is a sequence of one-character strings.  The file system   *)
(* is the set of directories and a map from path to file content; the      *)
(* network is a log of the requests issued and, for each request, an       *)
(* outcome drawn from a small set.  Every invocation is a process whose pc *)
(* walks the statements of the function it executes.                       *)
(***************************************************************************)
EXTENDS Integers, Sequences, FiniteSets, TLC

(* ------------------------------ bounds -------------------------------- *)

\* longest tail (in characters) of the URLs handed to get_extension_from_url
MaxTail == 4
\* most pieces in the tail of the URLs handed to download_file
MaxPieces == 2
\* longest response body, in bytes
MaxBody == 2
\* most chunks iter_content delivers for one response
MaxChunks == 2

(* ------------------------------ str ----------------------------------- *)

\* None, told apart from every str: a str holds one-character strings only
None == <<"None">>

Upper ==
    {"A", "B", "C", "D", "E", "F", "G", "H", "I", "J", "K", "L", "M", "N",
     "O", "P", "Q", "R", "S", "T", "U", "V", "W", "X", "Y", "Z"}

LowerOf ==
    "A" :> "a" @@ "B" :> "b" @@ "C" :> "c" @@ "D" :> "d" @@ "E" :> "e" @@
    "F" :> "f" @@ "G" :> "g" @@ "H" :> "h" @@ "I" :> "i" @@ "J" :> "j" @@
    "K" :> "k" @@ "L" :> "l" @@ "M" :> "m" @@ "N" :> "n" @@ "O" :> "o" @@
    "P" :> "p" @@ "Q" :> "q" @@ "R" :> "r" @@ "S" :> "s" @@ "T" :> "t" @@
    "U" :> "u" @@ "V" :> "v" @@ "W" :> "w" @@ "X" :> "x" @@ "Y" :> "y" @@
    "Z" :> "z"

\* str.lower()
Lower(s) ==
    [i \in 1..Len(s) |-> IF s[i] \in Upper THEN LowerOf[s[i]] ELSE s[i]]

\* s[i-1:] of Python, for a 1-based i
From(s, i) == SubSeq(s, i, Len(s))

\* s[:i-1] of Python, for a 1-based i
Upto(s, i) == SubSeq(s, 1, i - 1)

\* str.startswith(prefix)
StartsWith(s, prefix) ==
    /\ Len(prefix) <= Len(s)
    /\ SubSeq(s, 1, Len(prefix)) = prefix

\* the least member of a set of indexes, 0 if it is empty
LeastOr0(S) == IF S = {} THEN 0 ELSE CHOOSE i \in S : \A j \in S : i <= j

\* the greatest member of a set of indexes, 0 if it is empty
GreatestOr0(S) == IF S = {} THEN 0 ELSE CHOOSE i \in S : \A j \in S : i >= j

\* str.find(sub, start): the 1-based index of the first occurrence of sub at
\* or after the 1-based index start, 0 where Python returns -1
Find(s, sub, start) ==
    LeastOr0({i \in start..(Len(s) - Len(sub) + 1) :
                 SubSeq(s, i, i + Len(sub) - 1) = sub})

\* str.rfind(c) for a one-character c: 1-based, 0 where Python returns -1
RFind(s, c) == GreatestOr0({i \in 1..Len(s) : s[i] = c})

\* sub in s
Contains(s, sub) == Find(s, sub, 1) # 0

\* s with the occurrence of old at the 1-based index i replaced, s if i = 0
ReplaceAt(s, old, new, i) ==
    IF i = 0 THEN s ELSE Upto(s, i) \o new \o From(s, i + Len(old))

\* str.replace(old, new, 1): the first occurrence only
ReplaceFirst(s, old, new) == ReplaceAt(s, old, new, Find(s, old, 1))

\* str.replace(old, new): every non-overlapping occurrence, left to right
RECURSIVE ReplaceEvery(_, _, _)
ReplaceEvery(s, old, new) ==
    IF old = <<>> \/ ~Contains(s, old) THEN s
    ELSE Upto(s, Find(s, old, 1)) \o new
         \o ReplaceEvery(From(s, Find(s, old, 1) + Len(old)), old, new)

\* s[:i-1] for the 1-based index i of a separator, s if i = 0
CutAt(s, i) == IF i = 0 THEN s ELSE Upto(s, i)

\* s.split(c, 1)[0]
Cut(s, c) == CutAt(s, Find(s, <<c>>, 1))

(* --------------------------- urllib.parse ----------------------------- *)

Alpha ==
    Upper \cup
    {"a", "b", "c", "d", "e", "f", "g", "h", "i", "j", "k", "l", "m", "n",
     "o", "p", "q", "r", "s", "t", "u", "v", "w", "x", "y", "z"}

scheme_chars ==
    Alpha \cup {"0", "1", "2", "3", "4", "5", "6", "7", "8", "9", "+", "-", "."}

uses_params ==
    {<<>>, <<"f", "t", "p">>, <<"h", "d", "l">>,
     <<"p", "r", "o", "s", "p", "e", "r", "o">>, <<"h", "t", "t", "p">>,
     <<"i", "m", "a", "p">>, <<"h", "t", "t", "p", "s">>,
     <<"s", "h", "t", "t", "p">>, <<"r", "t", "s", "p">>,
     <<"r", "t", "s", "p", "s">>, <<"r", "t", "s", "p", "u">>,
     <<"s", "i", "p">>, <<"s", "i", "p", "s">>, <<"m", "m", "s">>,
     <<"s", "f", "t", "p">>, <<"t", "e", "l">>}

\* url[:i] is a scheme: i is the index of the first ':' (0 if none)
HasScheme(url, i) ==
    /\ i > 1
    /\ url[1] \in Alpha
    /\ \A k \in 1..(i - 1) : url[k] \in scheme_chars

\* urlsplit: the scheme, lower-cased, <<>> if none
SchemeAt(url, i) == IF HasScheme(url, i) THEN Lower(Upto(url, i)) ELSE <<>>

\* urlsplit: the URL after its scheme
AfterSchemeAt(url, i) == IF HasScheme(url, i) THEN From(url, i + 1) ELSE url

\* _splitnetloc(url, 2)[1]: after '//', the network location ends at the
\* first '/', '?' or '#'
AfterNetloc(url) ==
    IF StartsWith(url, <<"/", "/">>)
    THEN From(url, LeastOr0({Find(url, <<"/">>, 3), Find(url, <<"?">>, 3),
                             Find(url, <<"#">>, 3), Len(url) + 1} \ {0}))
    ELSE url

\* _splitnetloc(url, 2)[0]: the network location after '//', <<>> if none
NetlocOf(url) ==
    IF StartsWith(url, <<"/", "/">>)
    THEN SubSeq(url, 3,
                LeastOr0({Find(url, <<"/">>, 3), Find(url, <<"?">>, 3),
                          Find(url, <<"#">>, 3), Len(url) + 1} \ {0}) - 1)
    ELSE <<>>

\* urlsplit(url).netloc
urlsplit_netloc(url) == NetlocOf(AfterSchemeAt(url, Find(url, <<":">>, 1)))

\* urlsplit(url).scheme
urlsplit_scheme(url) == SchemeAt(url, Find(url, <<":">>, 1))

\* urlsplit(url).path: what is left without the scheme, the network
\* location, the fragment (from the first '#') and the query (from '?')
urlsplit_path(url) ==
    Cut(Cut(AfterNetloc(AfterSchemeAt(url, Find(url, <<":">>, 1))), "#"), "?")

\* _splitparams(url)[0], slash being url.rfind('/')
SplitParamsAt(url, slash) ==
    CutAt(url, Find(url, <<";">>, IF slash = 0 THEN 1 ELSE slash))

\* urlparse: the path loses the parameters of its last segment
ParamsCut(scheme, path) ==
    IF scheme \in uses_params /\ Contains(path, <<";">>)
    THEN SplitParamsAt(path, RFind(path, "/"))
    ELSE path

\* urlparse(url).path
urlparse_path(url) == ParamsCut(urlsplit_scheme(url), urlsplit_path(url))

(* ------------------------------ os.path ------------------------------- *)

\* genericpath._splitext, the scan over the leading dots of the last segment:
\* the first character that is not a dot makes p[dotIndex:] the extension
RECURSIVE SkipLeadingDots(_, _, _)
SkipLeadingDots(p, filenameIndex, dotIndex) ==
    IF filenameIndex < dotIndex
    THEN IF p[filenameIndex] # "."
         THEN From(p, dotIndex)
         ELSE SkipLeadingDots(p, filenameIndex + 1, dotIndex)
    ELSE <<>>

\* genericpath._splitext(p, sep, None, extsep)[1]
SplitextAt(p, sepIndex, dotIndex) ==
    IF dotIndex > sepIndex
    THEN SkipLeadingDots(p, sepIndex + 1, dotIndex)
    ELSE <<>>

\* os.path.splitext(p)[1]
splitext(p) == SplitextAt(p, RFind(p, "/"), RFind(p, "."))

\* os.path.join(a, b)
join(a, b) ==
    IF StartsWith(b, <<"/">>) THEN b
    ELSE IF a = <<>> \/ a[Len(a)] = "/" THEN a \o b
    ELSE a \o <<"/">> \o b

(* ------------------------------ mimetypes ----------------------------- *)

\* the media types of the model, each with its lower-case form
MediaTypes ==
    {"image/jpeg", "TEXT/HTML", "text/html", "application/x-unknown", ""}

TypeLower(t) == IF t = "TEXT/HTML" THEN "text/html" ELSE t

\* mimetypes.types_map, inverted, for the media types of the model
types_map_inv ==
    "image/jpeg" :> <<".", "j", "p", "g">> @@
    "text/html" :> <<".", "h", "t", "m", "l">>

\* mimetypes.guess_extension(type): None when the table has no entry
guess_extension(type) ==
    IF TypeLower(type) \in DOMAIN types_map_inv
    THEN types_map_inv[TypeLower(type)]
    ELSE None

(* ------------------------------ requests ------------------------------ *)

\* a content-type header value is the sequence of its ';'-separated parts,
\* so that value.split(';')[0] is its first part; None: no such header
ContentTypes ==
    {None, <<"image/jpeg">>, <<"TEXT/HTML", " charset=utf-8">>,
     <<"application/x-unknown">>}

\* response.headers.get('content-type', '').split(';')[0]
content_type_of(header) == IF header = None THEN "" ELSE header[1]

Statuses == {200, 304, 404}

\* requests sends a request only to an http or https URL that names a host;
\* for any other URL it raises before anything is sent
Requestable(url) ==
    /\ urlsplit_scheme(url) \in {<<"h", "t", "t", "p">>,
                                 <<"h", "t", "t", "p", "s">>}
    /\ urlsplit_netloc(url) # <<>>

\* an exception object: its class and its message
Exc(cls, msg) == [cls |-> cls, msg |-> msg]

\* no exception
NoExc == Exc("none", <<>>)

\* how a call ended: not yet, with a value, or with an exception
Pending == [kind |-> "pending", value |-> None, exc |-> NoExc]

Returned(v) == [kind |-> "returned", value |-> v, exc |-> NoExc]

Raised(x) == [kind |-> "raised", value |-> None, exc |-> x]

\* Response.raise_for_status(): an HTTPError for a 4xx or 5xx status
raises_for_status(status) == 400 <= status /\ status < 600

\* the sequences over S of length at most n
RECURSIVE SeqsUpTo(_, _)
SeqsUpTo(S, n) ==
    IF n = 0 THEN {<<>>}
    ELSE LET shorter == SeqsUpTo(S, n - 1)
         IN  shorter \cup {Append(s, x) : s \in shorter, x \in S}

RECURSIVE Flatten(_)
Flatten(ss) == IF ss = <<>> THEN <<>> ELSE Head(ss) \o Flatten(Tail(ss))

\* the bodies of the model: the bytes 1, 2, 3, ... up to a length, every byte
\* different, so that a byte lost, doubled or out of place shows
Bodies == {[i \in 1..n |-> i] : n \in 0..MaxBody}

\* the chunks a body can be cut into: its slices, the empty one among them
Slices(body) ==
    {SubSeq(body, i, j) : i \in 1..(Len(body) + 1), j \in 0..Len(body)}

chunk_size == 8192

\* what iter_content(chunk_size) can deliver for a body: its bytes in order,
\* cut into chunks of at most chunk_size bytes, some of them possibly empty
Chunkings(body) ==
    {cs \in SeqsUpTo({c \in Slices(body) : Len(c) <= chunk_size}, MaxChunks) :
        Flatten(cs) = body}

(* ------------------------------- state -------------------------------- *)

VARIABLES
    environ,    \* os.environ: S3_PUBLIC_URL and S3_ENDPOINT_URL, None if unset
    source,     \* the bytes the server holds for the URL
    dirs,       \* the directories that exist
    files,      \* the files that exist: path -> content
    issued,     \* the values uuid.uuid4() has returned so far
    proc        \* the invocations: their arguments, locals and position

vars == <<environ, source, dirs, files, issued, proc>>

Procs == {1, 2}

\* the values uuid.uuid4() draws from: as many as there are invocations
Uuids == 1..Cardinality(Procs)

\* a faulty uuid_str: every invocation gets the same name
uuid_fixed(n) == <<"0">>

\* str(uuid): one token, free of '/' and '.'
uuid_str(n) == <<ToString(n)>>

S3_PUBLIC_URL_default ==
    <<"h", "t", "t", "p", ":", "/", "/", "7", "8", ".", "4", "6", ".", "1",
      "4", "6", ".", "7", "9", ":", "9", "0", "0", "0">>

S3_ENDPOINT_URL_default ==
    <<"h", "t", "t", "p", ":", "/", "/", "m", "i", "n", "i", "o", ":", "9",
      "0", "0", "0">>

\* os.environ.get(name, default)
environ_get(env, name, default) ==
    IF env[name] = None THEN default ELSE env[name]

minio_external(env) == environ_get(env, "S3_PUBLIC_URL", S3_PUBLIC_URL_default)

minio_internal(env) == environ_get(env, "S3_ENDPOINT_URL", S3_ENDPOINT_URL_default)

\* the environments of the model: nothing set; both set, the internal base
\* beginning with the external one; the external base set to the empty string
Environs ==
    {[S3_PUBLIC_URL |-> None, S3_ENDPOINT_URL |-> None],
     [S3_PUBLIC_URL |-> <<"h", "t", "t", "p", ":", "/", "/", "e">>,
      S3_ENDPOINT_URL |-> <<"h", "t", "t", "p", ":", "/", "/", "e", "/", "i">>],
     [S3_PUBLIC_URL |-> <<>>, S3_ENDPOINT_URL |-> None]}

OtherBase == <<"h", "t", "t", "p", ":", "/", "/", "x">>

\* the URLs handed to download_file: a base (external, internal, another
\* host) and a tail of pieces, among them the two bases themselves
DownloadUrls(env) ==
    LET pieces == {<<"/", "a">>, <<".", "B">>, minio_external(env),
                   minio_internal(env)}
    IN  {base \o Flatten(t) :
            base \in {minio_external(env), minio_internal(env), OtherBase},
            t \in SeqsUpTo(pieces, MaxPieces)}

\* the URLs handed to get_extension_from_url directly
ExtensionUrls ==
    {base \o t : base \in {<<>>, OtherBase},
                 t \in SeqsUpTo({"/", ".", "a", "B", "?", ";"}, MaxTail)}

\* the default of download_file, and a relative path with no final '/'
StoragePaths == {<<"/", "t", "m", "p", "/">>, <<"d">>}

\* status 0: no request made; status -1: the request raised
NoResponse ==
    [status |-> 0, content_type |-> None, chunks |-> <<>>, next |-> 1]

\* an invocation that has not been made
Idle ==
    [fn |-> "none", pc |-> "idle", arg_url |-> <<>>, storage_path |-> <<>>,
     url |-> <<>>, file_id |-> <<>>, extension |-> None,
     local_filename |-> None, sent |-> <<>>, head |-> NoResponse,
     response |-> NoResponse, f |-> "none", e |-> NoExc, result |-> Pending,
     touched |-> {}]

\* download_file(url, storage_path) entered
CallDownload(u, sp) ==
    [Idle EXCEPT !.fn = "download_file", !.pc = "makedirs", !.arg_url = u,
                 !.url = u, !.storage_path = sp]

\* get_extension_from_url(url) entered
CallExtension(u) ==
    [Idle EXCEPT !.fn = "get_extension_from_url", !.pc = "ext_path",
                 !.arg_url = u, !.url = u]

InitWorld ==
    /\ dirs = {}
    /\ files = <<>>
    /\ issued = {}

DefaultEnviron == [S3_PUBLIC_URL |-> None, S3_ENDPOINT_URL |-> None]

DefaultStoragePath == <<"/", "t", "m", "p", "/">>

\* two URLs, one with an extension in its path and one without
PlainUrls ==
    {minio_external(DefaultEnviron) \o <<"/", "a", ".", "B">>,
     OtherBase \o <<"/", "a">>}

\* what one download_file call is given and finds: every environment and
\* URL with a one-byte source, and every source and storage path with the
\* two plain URLs
DownloadInputs ==
    {[environ |-> env, url |-> u, storage_path |-> DefaultStoragePath,
      source |-> <<1>>] : env \in Environs, u \in UNION {DownloadUrls(e) : e \in Environs}}
    \cup
    {[environ |-> DefaultEnviron, url |-> u, storage_path |-> sp,
      source |-> b] : u \in PlainUrls, sp \in StoragePaths, b \in Bodies}

\* one download_file call
Init ==
    /\ InitWorld
    /\ \E in \in DownloadInputs :
          /\ environ = in.environ
          /\ source = in.source
          /\ proc = [p \in Procs |->
                        IF p = 1 THEN CallDownload(in.url, in.storage_path)
                        ELSE Idle]

\* two download_file calls of the same URL into the same directory
InitConc ==
    /\ InitWorld
    /\ environ = DefaultEnviron
    /\ source = <<1, 2>>
    /\ proc = [p \in Procs |->
                  CallDownload(OtherBase \o <<"/", "a">>, DefaultStoragePath)]

\* one get_extension_from_url call
InitExt ==
    /\ InitWorld
    /\ environ = DefaultEnviron
    /\ source = <<>>
    /\ \E u \in ExtensionUrls :
          proc = [p \in Procs |-> IF p = 1 THEN CallExtension(u) ELSE Idle]

(* ----------------------- get_extension_from_url ----------------------- *)

\* the ValueError of the last line of get_extension_from_url
ExtensionError(url) ==
    Exc("ValueError",
        <<"C", "o", "u", "l", "d", " ", "n", "o", "t", " ", "d", "e", "t",
          "e", "r", "m", "i", "n", "e", " ", "f", "i", "l", "e", " ", "e",
          "x", "t", "e", "n", "s", "i", "o", "n", " ", "f", "r", "o", "m",
          " ", "U", "R", "L", ":", " ">> \o url)

\* a faulty PathExt: .lower() is left out
PathExtCased(path) == IF path # <<>> THEN splitext(path) ELSE <<>>

\* ext of lines 40-42: nothing for an empty path
PathExt(path) == IF path # <<>> THEN Lower(splitext(path)) ELSE <<>>

\* the extension the path of the URL gives, <<>> if none
path_extension(url) == PathExt(urlparse_path(url))

\* ext of lines 52-54: None unless the table gives a non-empty extension
LowerOrNone(ext) == IF ext # None /\ ext # <<>> THEN Lower(ext) ELSE None

\* the extension the content type of a HEAD response gives, None if none
probe_extension(response) ==
    LowerOrNone(guess_extension(content_type_of(response.content_type)))

\* get_extension_from_url returns ext: to its caller, or into download_file,
\* where the locals of get_extension_from_url are gone
ExtensionReturn(r, ext) ==
    IF r.fn = "download_file"
    THEN [r EXCEPT !.extension = ext, !.pc = "join", !.head = NoResponse]
    ELSE [r EXCEPT !.extension = ext, !.pc = "done", !.result = Returned(ext)]

\* get_extension_from_url raises: download_file calls it outside its try, so
\* the error leaves download_file as it is
ExtensionRaise(r, x) ==
    IF r.fn = "download_file"
    THEN [r EXCEPT !.pc = "done", !.result = Raised(x), !.head = NoResponse]
    ELSE [r EXCEPT !.pc = "done", !.result = Raised(x)]

\* lines 40-43 for the invocation r
AfterPath(r, ext) ==
    IF ext # <<>> THEN ExtensionReturn(r, ext)
    ELSE [r EXCEPT !.pc = "ext_probe"]

\* get_extension_from_url, the URL's path: return its extension if it has one
ExtPath(p) ==
    /\ proc[p].pc = "ext_path"
    /\ proc' = [proc EXCEPT ![p] = AfterPath(@, path_extension(@.url))]
    /\ UNCHANGED <<environ, source, dirs, files, issued>>

\* requests.head(url) is issued
SendHead(r) ==
    [r EXCEPT !.sent = Append(@, [method |-> "HEAD", url |-> r.url])]

\* a faulty AfterProbe: an empty extension is returned where none was found
AfterProbePlaceholder(r, ext) ==
    IF ext # None THEN ExtensionReturn(r, ext) ELSE ExtensionReturn(r, <<>>)

\* lines 51-59 for the invocation r: the response gave ext, or nothing
AfterProbe(r, ext) ==
    IF ext # None THEN ExtensionReturn(r, ext)
    ELSE ExtensionRaise(r, ExtensionError(r.url))

\* get_extension_from_url, the HEAD probe: the request raises, which the
\* bare except swallows, or its response, of any status, gives a content type
ExtProbe(p) ==
    /\ proc[p].pc = "ext_probe"
    /\ \/ proc' = [proc EXCEPT ![p] =
                      AfterProbe([SendHead(@) EXCEPT !.head.status = -1], None)]
       \/ \E st \in Statuses, ct \in ContentTypes :
             /\ Requestable(proc[p].url)
             /\ proc' = [proc EXCEPT ![p] =
                            AfterProbe([SendHead(@) EXCEPT
                                           !.head.status = st,
                                           !.head.content_type = ct],
                                       probe_extension([content_type |-> ct]))]
    /\ UNCHANGED <<environ, source, dirs, files, issued>>

(* ---------------------------- download_file --------------------------- *)

\* line 73, os.makedirs(storage_path, exist_ok=True) succeeded
MakedirsDone(r) == [r EXCEPT !.pc = "rewrite"]

\* an error raised outside the try leaves download_file as it is
Propagate(r, x) == [r EXCEPT !.pc = "done", !.result = Raised(x)]

\* download_file, line 73: the directory is there afterwards, or makedirs
\* fails
Makedirs(p) ==
    /\ proc[p].pc = "makedirs"
    /\ \/ /\ dirs' = dirs \cup {proc[p].storage_path}
          /\ proc' = [proc EXCEPT ![p] = MakedirsDone(@)]
       \/ /\ dirs' = dirs
          /\ proc' = [proc EXCEPT ![p] = Propagate(@, Exc("OSError", <<>>))]
    /\ UNCHANGED <<environ, source, files, issued>>

\* a faulty rewrite_url: replace() without its count of 1
rewrite_every(url, external, internal) ==
    IF StartsWith(url, external)
    THEN ReplaceEvery(url, external, internal)
    ELSE url

\* lines 78-79
rewrite_url(url, external, internal) ==
    IF StartsWith(url, external)
    THEN ReplaceFirst(url, external, internal)
    ELSE url

\* lines 76-79 for the invocation r
Rewritten(r, external, internal) ==
    [r EXCEPT !.url = rewrite_url(r.url, external, internal), !.pc = "uuid"]

\* download_file, lines 76-79: the external base at the start of the URL
\* gives way to the internal one
Rewrite(p) ==
    /\ proc[p].pc = "rewrite"
    /\ proc' = [proc EXCEPT ![p] =
                   Rewritten(@, minio_external(environ),
                             minio_internal(environ))]
    /\ UNCHANGED <<environ, source, dirs, files, issued>>

\* line 81, file_id = str(uuid.uuid4())
WithFileId(r, n) == [r EXCEPT !.file_id = uuid_str(n), !.pc = "ext_path"]

\* download_file, line 81: uuid4 returns a value it has not returned before
Uuid4(p) ==
    /\ proc[p].pc = "uuid"
    /\ \E n \in Uuids \ issued :
          /\ issued' = issued \cup {n}
          /\ proc' = [proc EXCEPT ![p] = WithFileId(@, n)]
    /\ UNCHANGED <<environ, source, dirs, files>>

\* line 83
local_filename_of(storage_path, file_id, extension) ==
    join(storage_path, file_id \o extension)

\* line 83 for the invocation r
Joined(r) ==
    [r EXCEPT !.local_filename =
                  local_filename_of(r.storage_path, r.file_id, r.extension),
              !.pc = "get"]

\* download_file, line 83
Join(p) ==
    /\ proc[p].pc = "join"
    /\ proc' = [proc EXCEPT ![p] = Joined(@)]
    /\ UNCHANGED <<environ, source, dirs, files, issued>>

\* requests.get(url, stream=True) is issued
SendGet(r) ==
    [r EXCEPT !.sent = Append(@, [method |-> "GET", url |-> r.url])]

\* an error raised inside the try: caught at line 109 as e
Catch(r, x) == [r EXCEPT !.e = x, !.pc = "except"]

\* the body a response of the given status carries
BodyOf(status, content) == IF status = 200 THEN content ELSE <<>>

\* download_file, line 97: the request raises, or a response arrives whose
\* body iter_content will deliver in chunks
Get(p) ==
    /\ proc[p].pc = "get"
    /\ \/ proc' = [proc EXCEPT ![p] =
                      Catch([SendGet(@) EXCEPT !.response.status = -1],
                            Exc("ConnectionError", <<>>))]
       \/ \E st \in Statuses :
             \E cs \in Chunkings(BodyOf(st, source)) :
                /\ Requestable(proc[p].url)
                /\ proc' = [proc EXCEPT ![p] =
                               [SendGet(@) EXCEPT !.response.status = st,
                                                  !.response.chunks = cs,
                                                  !.pc = "raise_for_status"]]
    /\ UNCHANGED <<environ, source, dirs, files, issued>>

\* a faulty StatusChecked: raise_for_status() is left out
StatusUnchecked(r) == [r EXCEPT !.pc = "open"]

\* line 100, response.raise_for_status()
StatusChecked(r) ==
    IF raises_for_status(r.response.status)
    THEN Catch(r, Exc("HTTPError", <<>>))
    ELSE [r EXCEPT !.pc = "open"]

\* download_file, line 100
RaiseForStatus(p) ==
    /\ proc[p].pc = "raise_for_status"
    /\ proc' = [proc EXCEPT ![p] = StatusChecked(@)]
    /\ UNCHANGED <<environ, source, dirs, files, issued>>

\* the file system with the file at path created or truncated
Created(fs, path) == (path :> <<>>) @@ fs

\* line 102, open(local_filename, 'wb') succeeded
Opened(r) ==
    [r EXCEPT !.f = "open", !.pc = "iter",
              !.touched = @ \cup {r.local_filename}]

\* download_file, line 102: the file is created empty, or open fails and
\* creates nothing
Open(p) ==
    /\ proc[p].pc = "open"
    /\ \/ /\ files' = Created(files, proc[p].local_filename)
          /\ proc' = [proc EXCEPT ![p] = Opened(@)]
       \/ /\ files' = files
          /\ proc' = [proc EXCEPT ![p] = Catch(@, Exc("PermissionError", <<>>))]
    /\ UNCHANGED <<environ, source, dirs, issued>>

\* a faulty write: every chunk is written at the start of the file
write_over(content, data) == data \o SubSeq(content, Len(data) + 1, Len(content))

\* f.write(data) on the content the file has
write(content, data) == content \o data

\* the file system after f.write(data) through a handle on path; a file that
\* was unlinked meanwhile takes the bytes with it
Written(fs, path, data) ==
    IF path \in DOMAIN fs THEN [fs EXCEPT ![path] = write(@, data)] ELSE fs

\* an error inside the with block: the block is left with it pending
Leave(r, x) == [r EXCEPT !.e = x, !.pc = "with_exit"]

\* lines 103-105, one chunk taken from iter_content
Taken(r) ==
    [r EXCEPT !.response.next = @ + 1,
              !.touched = IF r.response.chunks[r.response.next] # <<>>
                          THEN @ \cup {r.local_filename} ELSE @]

\* lines 104-105: an empty chunk is skipped
ChunkWritten(fs, path, chunk) ==
    IF chunk # <<>> THEN Written(fs, path, chunk) ELSE fs

\* download_file, lines 103-105, one turn of the loop: the next chunk is
\* written unless it is empty; or reading it fails; or writing it fails with
\* none or some of its bytes written; or the chunks are exhausted
Iter(p) ==
    /\ proc[p].pc = "iter"
    /\ \/ /\ proc[p].response.next <= Len(proc[p].response.chunks)
          /\ files' = ChunkWritten(files, proc[p].local_filename,
                          proc[p].response.chunks[proc[p].response.next])
          /\ proc' = [proc EXCEPT ![p] = Taken(@)]
       \/ /\ files' = files
          /\ proc' = [proc EXCEPT ![p] =
                         Leave(@, Exc("ChunkedEncodingError", <<>>))]
       \/ /\ proc[p].response.next <= Len(proc[p].response.chunks)
          /\ proc[p].response.chunks[proc[p].response.next] # <<>>
          /\ \E n \in 0..(Len(proc[p].response.chunks[proc[p].response.next]) - 1) :
                files' = Written(files, proc[p].local_filename,
                            SubSeq(proc[p].response.chunks[proc[p].response.next],
                                   1, n))
          /\ proc' = [proc EXCEPT ![p] = Leave(Taken(@), Exc("OSError", <<>>))]
       \/ /\ proc[p].response.next > Len(proc[p].response.chunks)
          /\ files' = files
          /\ proc' = [proc EXCEPT ![p] = [@ EXCEPT !.pc = "with_exit"]]
    /\ UNCHANGED <<environ, source, dirs, issued>>

\* a faulty ExitWith: f is closed only where the block ended normally
ExitWithLeak(r) == IF r.e # NoExc THEN r ELSE [r EXCEPT !.f = "closed"]

\* the with statement closes f however its block was left
ExitWith(r) == [r EXCEPT !.f = "closed"]

\* after the with block: the pending error goes to the except clause
AfterWith(r) ==
    IF r.e # NoExc THEN [r EXCEPT !.pc = "except"]
    ELSE [r EXCEPT !.pc = "return"]

\* download_file, the end of the with block of line 102: f is closed; a block
\* that ended normally may still fail here, in the flush of close().  (A
\* second failure while an error is pending is not modelled.)
WithExit(p) ==
    /\ proc[p].pc = "with_exit"
    /\ \/ proc' = [proc EXCEPT ![p] = AfterWith(ExitWith(@))]
       \/ /\ proc[p].e = NoExc
          /\ proc' = [proc EXCEPT ![p] =
                         Catch(ExitWith(@), Exc("BlockingIOError", <<>>))]
    /\ UNCHANGED <<environ, source, dirs, files, issued>>

\* line 108, return local_filename
ReturnedPath(r) ==
    [r EXCEPT !.pc = "done", !.result = Returned(r.local_filename)]

\* download_file, lines 107-108
Return(p) ==
    /\ proc[p].pc = "return"
    /\ proc' = [proc EXCEPT ![p] = ReturnedPath(@)]
    /\ UNCHANGED <<environ, source, dirs, files, issued>>

\* a faulty Exists: the partial file is left where it is
ExistsIgnored(r, exists) == [r EXCEPT !.pc = "reraise"]

\* line 111, os.path.exists(local_filename) evaluated to exists
Exists(r, exists) ==
    IF exists THEN [r EXCEPT !.pc = "remove"] ELSE [r EXCEPT !.pc = "reraise"]

\* download_file, lines 109-111
Except(p) ==
    /\ proc[p].pc = "except"
    /\ proc' = [proc EXCEPT ![p] =
                   Exists(@, @.local_filename \in DOMAIN files)]
    /\ UNCHANGED <<environ, source, dirs, files, issued>>

\* the file system without the file at path
Removed(fs, path) == [q \in DOMAIN fs \ {path} |-> fs[q]]

\* line 112, os.remove(local_filename): a file that is gone by now makes it
\* raise, and that error leaves download_file in place of e
RemoveDone(r, exists) ==
    IF exists
    THEN [r EXCEPT !.pc = "reraise", !.touched = @ \cup {r.local_filename}]
    ELSE Propagate(r, Exc("FileNotFoundError", <<>>))

\* download_file, line 112
Remove(p) ==
    /\ proc[p].pc = "remove"
    /\ files' = Removed(files, proc[p].local_filename)
    /\ proc' = [proc EXCEPT ![p] =
                   RemoveDone(@, @.local_filename \in DOMAIN files)]
    /\ UNCHANGED <<environ, source, dirs, issued>>

\* line 113, raise e
Reraised(r) == Propagate(r, r.e)

\* download_file, line 113
Reraise(p) ==
    /\ proc[p].pc = "reraise"
    /\ proc' = [proc EXCEPT ![p] = Reraised(@)]
    /\ UNCHANGED <<environ, source, dirs, files, issued>>

(* --------------------------- specifications --------------------------- *)

\* a direct call of get_extension_from_url
NextExt == \E p \in Procs : ExtPath(p) \/ ExtProbe(p)

SpecExt == InitExt /\ [][NextExt]_vars

Next ==
    \E p \in Procs :
        \/ Makedirs(p)
        \/ Rewrite(p)
        \/ Uuid4(p)
        \/ ExtPath(p)
        \/ ExtProbe(p)
        \/ Join(p)
        \/ Get(p)
        \/ RaiseForStatus(p)
        \/ Open(p)
        \/ Iter(p)
        \/ WithExit(p)
        \/ Return(p)
        \/ Except(p)
        \/ Remove(p)
        \/ Reraise(p)

\* one download
Spec == Init /\ [][Next]_vars

\* two concurrent downloads
SpecConc == InitConc /\ [][Next]_vars

(* ------------------------------ properties ---------------------------- *)

Downloads == {p \in Procs : proc[p].fn = "download_file"}

\* the direct calls of get_extension_from_url that have ended
ExtensionCallsDone ==
    {p \in Procs : proc[p].fn = "get_extension_from_url" /\ proc[p].pc = "done"}

\* the path component of the URL an invocation was given
ArgPath(p) == urlparse_path(proc[p].arg_url)

\* the file an invocation computed a name for exists
FileExists(p) == proc[p].local_filename \in DOMAIN files

\* the invocation ended with the ValueError that names its URL
FailsNamingUrl(p) ==
    /\ proc[p].result.kind = "raised"
    /\ proc[p].result.exc.cls = "ValueError"
    /\ Contains(proc[p].result.exc.msg, proc[p].url)

\* the GET of the invocation raised
GetRaised(p) == proc[p].response.status = -1

\* the GET of the invocation was answered
GetAnswered(p) == proc[p].response.status > 0

\* the invocation met an error inside its try block
Failed(p) ==
    \/ proc[p].e # NoExc
    \/ GetRaised(p)
    \/ GetAnswered(p) /\ proc[p].response.status >= 400

\* the caller got the error that occurred, and no other
GotOriginalError(p) ==
    /\ proc[p].result.kind = "raised"
    /\ proc[p].e # NoExc
    /\ proc[p].result.exc = proc[p].e
    /\ GetRaised(p) => proc[p].result.exc.cls = "ConnectionError"
    /\ GetAnswered(p) /\ proc[p].response.status >= 400
          => proc[p].result.exc.cls = "HTTPError"

ExpectedTarget(u) ==
    IF StartsWith(u, minio_external(environ))
    THEN minio_internal(environ) \o From(u, Len(minio_external(environ)) + 1)
    ELSE u

\* C2: every request of download_file, the HEAD probe and the GET, goes to
\* the URL with the external base at its start replaced by the internal one,
\* once, and to the URL unchanged if it does not begin with the external base.
C2_RequestsTargetRewrittenUrl ==
    \A p \in Downloads :
        \A i \in 1..Len(proc[p].sent) :
            proc[p].sent[i].url = ExpectedTarget(proc[p].arg_url)

\* a HEAD and a GET went out for a URL that begins with the external base and
\* holds it once more further on
C2_Witness ==
    \E p \in Downloads :
        /\ Len(proc[p].sent) = 2
        /\ proc[p].sent[1].method = "HEAD"
        /\ proc[p].sent[2].method = "GET"
        /\ minio_external(environ) # <<>>
        /\ StartsWith(proc[p].arg_url, minio_external(environ))
        /\ Find(proc[p].arg_url, minio_external(environ), 2) # 0

\* the suffix of a path from its last '.', lower-cased
LoweredSuffix(path) == Lower(From(path, RFind(path, ".")))

\* C3, as stated: for a URL whose path contains a '.', the call returns the
\* suffix of the path from its last '.', lower-cased, and sends no request.
C3_AsStated ==
    \A p \in ExtensionCallsDone :
        Contains(ArgPath(p), <<".">>)
        => /\ proc[p].result = Returned(LoweredSuffix(ArgPath(p)))
           /\ proc[p].sent = <<>>

\* the last '.' of the path lies in its last segment, after a character of
\* that segment that is not a '.'
DotInLastSegment(path) ==
    \E k \in (RFind(path, "/") + 1)..(RFind(path, ".") - 1) : path[k] # "."

\* C3, amended: for a URL whose path has its last '.' in its last segment,
\* after a character of that segment other than '.', the call returns the
\* suffix of the path from that '.', lower-cased, and sends no request.
C3_PathSuffixLowered ==
    \A p \in ExtensionCallsDone :
        DotInLastSegment(ArgPath(p))
        => /\ proc[p].result = Returned(LoweredSuffix(ArgPath(p)))
           /\ proc[p].sent = <<>>

\* a URL with an upper-case suffix was resolved to ".b"
C3_Witness ==
    \E p \in ExtensionCallsDone :
        /\ Contains(ArgPath(p), <<".", "B">>)
        /\ proc[p].result = Returned(<<".", "b">>)
        /\ proc[p].sent = <<>>

\* the content type of the HEAD response has no entry in the table
Unmapped(p) ==
    \/ proc[p].head.content_type = None
    \/ ~(TypeLower(proc[p].head.content_type[1]) \in DOMAIN types_map_inv)

\* C4: for a URL whose path gives no extension, a probe that raises, or whose
\* content type is absent or has no entry in the table, makes the call fail
\* with the ValueError that names the URL; the call never returns an empty
\* extension and no other error leaves it.
C4_ProbeFailureIsValueError ==
    \A p \in ExtensionCallsDone :
        /\ proc[p].result.kind = "returned"
              => proc[p].result.value # <<>> /\ proc[p].result.value # None
        /\ proc[p].result.kind = "raised" => FailsNamingUrl(p)
        /\ path_extension(proc[p].arg_url) = <<>>
              /\ (proc[p].head.status = -1 \/ Unmapped(p))
           => FailsNamingUrl(p)

\* the probe of a URL without an extension raised, and the call has ended
C4_Witness ==
    \E p \in ExtensionCallsDone :
        /\ path_extension(proc[p].arg_url) = <<>>
        /\ proc[p].head.status = -1
        /\ Len(proc[p].sent) = 1
        /\ FailsNamingUrl(p)

\* C5, as stated: for a URL whose path gives no extension, a HEAD response
\* whose status is not 2xx makes the call fail with the ValueError that names
\* the URL, whatever content type the response carries.
C5_AsStated ==
    \A p \in ExtensionCallsDone :
        /\ path_extension(proc[p].arg_url) = <<>>
        /\ proc[p].head.status > 0
        /\ ~(proc[p].head.status \in 200..299)
        => FailsNamingUrl(p)

\* C8, as stated: for a URL whose path ends in a '.', the path gives no
\* extension, the HEAD probe is made, and '.' is not returned.
C8_AsStated ==
    \A p \in ExtensionCallsDone :
        ArgPath(p) # <<>> /\ ArgPath(p)[Len(ArgPath(p))] = "."
        => /\ proc[p].result # Returned(<<".">>)
           /\ Len(proc[p].sent) = 1

\* C6: two concurrent download_file calls of one URL into one directory
\* compute different local paths, neither creates, writes or removes a file
\* other than its own, and a call that returned its path left there the
\* whole content of the source.
C6_ConcurrentDownloadsIndependent ==
    \A p \in Downloads :
        /\ \A q \in Downloads \ {p} :
              proc[p].local_filename # None
              => /\ proc[p].local_filename # proc[q].local_filename
                 /\ ~(proc[p].local_filename \in proc[q].touched)
        /\ proc[p].touched \subseteq {proc[p].local_filename}
        /\ proc[p].result.kind = "returned" /\ proc[p].response.status = 200
           => FileExists(p) /\ files[proc[p].local_filename] = source

\* both calls returned, each having written its file in two chunks
C6_Witness ==
    /\ Downloads = Procs
    /\ \A p \in Procs :
          /\ proc[p].result.kind = "returned"
          /\ proc[p].response.status = 200
          /\ Len(proc[p].response.chunks) = 2
          /\ proc[p].response.chunks[1] # <<>>
          /\ proc[p].response.chunks[2] # <<>>
          /\ files[proc[p].local_filename] = <<1, 2>>

\* the storage path as a directory prefix
DirPrefix(sp) ==
    IF sp = <<>> \/ sp[Len(sp)] = "/" THEN sp ELSE sp \o <<"/">>

\* the extension is the one the URL gives: that of its path, or else one the
\* table holds for a content type
ResolvedFor(ext, u) ==
    IF path_extension(u) # <<>> THEN ext = path_extension(u)
    ELSE \E t \in DOMAIN types_map_inv : ext = types_map_inv[t]

\* C7: when download_file returns a path, the file there holds the chunks of
\* the response in the order they came, nothing lost, doubled or moved, and
\* the path is the storage path, the uuid and the extension resolved for the
\* rewritten URL.
C7_FileHoldsBody ==
    \A p \in Downloads :
        proc[p].result.kind = "returned"
        => /\ proc[p].result.value \in DOMAIN files
           /\ files[proc[p].result.value] = Flatten(proc[p].response.chunks)
           /\ proc[p].response.status = 200
                 => files[proc[p].result.value] = source
           /\ proc[p].result.value =
                 DirPrefix(proc[p].storage_path) \o proc[p].file_id
                 \o proc[p].extension
           /\ proc[p].file_id # <<>>
           /\ ResolvedFor(proc[p].extension, ExpectedTarget(proc[p].arg_url))

\* a call returned after two chunks that both held bytes
C7_Witness ==
    \E p \in Downloads :
        /\ proc[p].result.kind = "returned"
        /\ Len(proc[p].response.chunks) = 2
        /\ proc[p].response.chunks[1] # <<>>
        /\ proc[p].response.chunks[2] # <<>>
        /\ files[proc[p].result.value] = <<1, 2>>

\* C9: the file handle is closed on every way out of download_file: when the
\* path is returned, and, after a failure inside the with block, before the
\* cleanup looks for the partial file and removes it.
C9_HandleClosed ==
    \A p \in Downloads :
        /\ proc[p].pc \in {"return", "except", "remove", "reraise", "done"}
              => proc[p].f # "open"
        /\ proc[p].result.kind = "returned" => proc[p].f = "closed"
        /\ proc[p].pc \in {"except", "remove", "reraise", "done"}
              /\ proc[p].e.cls \in {"ChunkedEncodingError", "OSError",
                                    "BlockingIOError"}
           => proc[p].f = "closed"

\* a write failed and the cleanup is about to remove the partial file
C9_Witness ==
    \E p \in Downloads :
        /\ proc[p].pc = "remove"
        /\ proc[p].e.cls = "OSError"
        /\ proc[p].f = "closed"
        /\ FileExists(p)

\* the invocation sent its GET
GetSent(p) ==
    \E i \in 1..Len(proc[p].sent) : proc[p].sent[i].method = "GET"

\* the steps up to the GET come in the order of the source: the directory
\* before the extension, the extension and the file name before the GET, the
\* HEAD probe before the GET
StepsInOrder(p) ==
    /\ proc[p].file_id # <<>> \/ proc[p].sent # <<>>
          => proc[p].storage_path \in dirs
    /\ proc[p].sent # <<>> => proc[p].url = ExpectedTarget(proc[p].arg_url)
    /\ GetSent(p) => proc[p].extension # None /\ proc[p].local_filename # None
    /\ \A i \in 1..Len(proc[p].sent) :
          proc[p].sent[i].method = "GET" => i = Len(proc[p].sent)
    /\ proc[p].result.exc.cls = "ValueError"
          => /\ ~GetSent(p)
             /\ proc[p].touched = {}
             /\ proc[p].storage_path \in dirs

====
